---------------------------- MODULE Spec2Model ----------------------------
(***************************************************************************)
(* Model of the Oi360 SOA reconciliation tool                              *)
(* (src/app/oi360/oi_360_soa_reco_pyqt_final.py).                          *)
(*                                                                         *)
(* The module holds several specifications over one set of variables:      *)
(*   SpecNorm  the match-key normaliser clean_match_value, applied twice   *)
(*             to a bounded string;                                        *)
(*   SpecAge   the age stage of RecoWorker.run on one date cell;           *)
(*   SpecAmt   the amount comparison of RecoWorker.run, row by row;        *)
(*   Spec      the host (Oi360App) loading tables and starting runs, and   *)
(*             the worker (RecoWorker.run): the age stage, the loop over   *)
(*             the reference slots and the completion of a run.            *)
(*   SpecStages  one run stage by stage, each try block either completing  *)
(*             or raising into its except handler;                         *)
(*   SpecDate  the statement's date column through a completed run;        *)
(*   SpecCols  the column names of the merged table and the detection of   *)
(*             the reference amount columns;                               *)
(*   SpecConc  two workers running at once on the host's tables;           *)
(*   SpecKeys  a run on tables some of whose match-key cells are missing.  *)
(* Strings are sequences of one-character strings.                         *)
(***************************************************************************)
EXTENDS Integers, Sequences, FiniteSets, TLC

VARIABLES
    nrm_pc,      \* position of the normaliser harness: "ready", "once", "twice"
    nrm_val,     \* the raw cell handed to clean_match_value
    nrm_once,    \* clean_match_value(nrm_val)
    nrm_twice,   \* clean_match_value(clean_match_value(nrm_val))
    age_pc,      \* position of the age harness: "ready", "done"
    age_today,   \* `today`, in half-day ticks from midnight of the run date
    age_date,    \* the parsed date cell in the same ticks, or NaT
    age_days,    \* the cell's 'Age (Days)', or NaN
    age_bucket,  \* the cell's 'Age Bucket'
    amt_pc,            \* position of the amount comparison: "rows", "done"
    ref_amount_cols,   \* the detected reference amount columns, in order
    amt_rows,          \* the rows compared so far: [soa, refs] cell texts
    amount_diff_data,  \* per compared row, its list of difference entries
    amt_flags,         \* cells written with mismatch_format: <<row, column>>
    mismatch_count,    \* the count reported in the status message
    soa_df,        \* Oi360App.soa_df: {} (None) or {statement table}
    soa_date_col,  \* whether soa_date_col names a column of the statement
    refs,          \* Oi360App.refs: per slot {} (None) or {reference table};
                   \* the worker's ref_configs hold the same table objects
    pc,            \* worker: "idle" (none), "started", "finished", "aborted"
    age_raised,    \* whether the age stage of this run raised
    statuses,      \* update_status emissions of this run, in order
    progress,      \* update_progress emissions of this run, in order
    debug_log,     \* log_debug records of this run, in order
    result,        \* {} or {table emitted on reco_complete by this run}
    prev_result,   \* {} or {table emitted by the previous run on the same
                   \* loaded tables}
    locals,        \* staged worker: {} or {the loop state of run(): df_result,
                   \* match_sources_dict, current_step, ...}
    next_slot,     \* staged worker: the slot the loop over ref_configs is at
    completions,   \* staged worker: number of reco_complete emissions
    caught,        \* staged worker: the except handlers entered, in order
    dt_pc,         \* date column: "loaded", "aged", "cleaned", "delivered"
    dt_name,       \* the name of the statement's designated date column
    dt_orig,       \* its cells as supplied by the caller: {} or {text}
    dt_cells,      \* its cells in df_result
    col_pc,        \* columns: "loop", "merged", "done"
    soa_cols,      \* the column names of the loaded statement, in order
    soa_match,     \* the statement's match column
    ref_configs,   \* per slot {} (None) or {[match_col, return_cols]}
    col_idx,       \* the slot the loop over ref_configs is at
    all_cols,      \* df_result.columns
    prev_cols,     \* df_result.columns before the latest slot iteration
    compared_cols, \* the columns compared against the statement amount
    w_pc,          \* per concurrent worker: "none", "clean", "merge", "finished"
    w_slot,        \* per concurrent worker: the slot its loop is at
    w_locals,      \* per concurrent worker: {} or {the loop state of run()}
    w_begin,       \* per concurrent worker: the reference tables it was
                   \* constructed on, as they were then
    w_result       \* per concurrent worker: {} or {table it emitted}

normVars == <<nrm_pc, nrm_val, nrm_once, nrm_twice>>
ageVars == <<age_pc, age_today, age_date, age_days, age_bucket>>
amtVars == <<amt_pc, ref_amount_cols, amt_rows, amount_diff_data, amt_flags,
             mismatch_count>>
hostVars == <<soa_df, soa_date_col, refs>>
workerVars == <<pc, age_raised>>
channelVars == <<statuses, progress, debug_log, result, prev_result>>
runVars == <<hostVars, workerVars, channelVars>>
stageVars == <<locals, next_slot, completions, caught>>
dateVars == <<dt_pc, dt_name, dt_orig, dt_cells>>
colVars == <<col_pc, soa_cols, soa_match, ref_configs, col_idx, all_cols,
             prev_cols, compared_cols>>
concVars == <<w_pc, w_slot, w_locals, w_begin, w_result>>
extVars == <<stageVars, dateVars, colVars, concVars>>
\* the variables a staged run leaves alone
outsideStages == <<normVars, ageVars, amtVars, dateVars, colVars, concVars>>
\* the variables the date column's passage leaves alone
outsideDate ==
    <<normVars, ageVars, amtVars, runVars, stageVars, colVars, concVars>>
\* the variables the column bookkeeping leaves alone
outsideCols ==
    <<normVars, ageVars, amtVars, runVars, stageVars, dateVars, concVars>>
\* the variables a run on tables with missing key cells leaves alone
outsideKeys == <<normVars, ageVars, amtVars, extVars>>
\* the variables concurrent workers leave alone
outsideConc ==
    <<normVars, ageVars, amtVars, workerVars, channelVars, stageVars, dateVars,
      colVars>>

vars == <<nrm_pc, nrm_val, nrm_once, nrm_twice,
          age_pc, age_today, age_date, age_days, age_bucket,
          amt_pc, ref_amount_cols, amt_rows, amount_diff_data, amt_flags,
          mismatch_count,
          soa_df, soa_date_col, refs,
          pc, age_raised,
          statuses, progress, debug_log, result, prev_result,
          locals, next_slot, completions, caught,
          dt_pc, dt_name, dt_orig, dt_cells,
          col_pc, soa_cols, soa_match, ref_configs, col_idx, all_cols,
          prev_cols, compared_cols,
          w_pc, w_slot, w_locals, w_begin, w_result>>

(***************************************************************************)
(* Bounds                                                                  *)
(***************************************************************************)
\* longest raw key string the normaliser harness enumerates
MaxKeyLen == 4
\* oldest and furthest-future statement date the age harness enumerates,
\* in days before and after the run date
MaxPastDays == 125
MaxFutureDays == 3
\* most rows of the merged table the amount comparison walks over
MaxAmtRows == 1
\* most rows of all loaded tables together, statement and references
MaxRows == 5

(***************************************************************************)
(* Strings                                                                 *)
(***************************************************************************)
\* the characters raw keys are built from: the Excel text marker, a
\* whitespace character, the digit zero, a non-zero digit and a letter
KeyChars == {"'", " ", "0", "5", "a"}

Digits == {"0", "5"}

KeyStrings == UNION {[1..n -> KeyChars] : n \in 0..MaxKeyLen}

\* str.isdigit(): non-empty and every character a digit
IsDigit(s) == Len(s) > 0 /\ \A i \in 1..Len(s) : s[i] \in Digits

\* str.lstrip(c): drop every leading occurrence of the character c
RECURSIVE LStrip(_, _)
LStrip(s, c) == IF s # <<>> /\ Head(s) = c THEN LStrip(Tail(s), c) ELSE s

\* str.rstrip(c)
RECURSIVE RStrip(_, _)
RStrip(s, c) ==
    IF s # <<>> /\ s[Len(s)] = c THEN RStrip(SubSeq(s, 1, Len(s) - 1), c) ELSE s

\* str.strip(): drop leading and trailing whitespace
Strip(s) == RStrip(LStrip(s, " "), " ")

\* mutant of ZeroStrip: the all-zeros case collapses to the empty string
ZeroStripNoKeep(s) == LStrip(s, "0")

\* s.lstrip('0') or '0'
ZeroStrip(s) == IF LStrip(s, "0") = <<>> THEN <<"0">> ELSE LStrip(s, "0")

\* if s.startswith("'"): s = s[1:]
Unquote(s) == IF s # <<>> /\ Head(s) = "'" THEN Tail(s) ELSE s

\* RecoWorker.run.clean_match_value
clean_match_value(val) ==
    LET s1 == Strip(val)
        s2 == Unquote(s1)
    IN  IF IsDigit(s2) \/ (s2 # <<>> /\ IsDigit(LStrip(s2, "0")))
        THEN ZeroStrip(s2)
        ELSE s2

(***************************************************************************)
(* Age stage                                                               *)
(***************************************************************************)
\* An optional number is a set: empty for pandas' missing value (NaT for
\* a date, NaN for a number), {n} for the number n.
NaT == {}
NaN == {}
Some(n) == {n}
ValOf(c) == CHOOSE n \in c : TRUE

TicksPerDay == 2

\* (today - temp_dates).dt.days: whole days of the difference, rounded
\* towards minus infinity; NaN for a date that did not parse
AgeDays(today, date) ==
    IF date = NaT THEN NaN ELSE Some((today - ValOf(date)) \div TicksPerDay)

\* mutant of bucket: the first bound is exclusive
bucketExclusive(days) ==
    IF days = NaN THEN "Unknown"
    ELSE IF ValOf(days) < 15 THEN "0-15"
    ELSE IF ValOf(days) <= 30 THEN "16-30"
    ELSE IF ValOf(days) <= 60 THEN "31-60"
    ELSE IF ValOf(days) <= 90 THEN "61-90"
    ELSE IF ValOf(days) <= 120 THEN "91-120"
    ELSE "121+"

\* RecoWorker.run.bucket
bucket(days) ==
    IF days = NaN THEN "Unknown"
    ELSE IF ValOf(days) <= 15 THEN "0-15"
    ELSE IF ValOf(days) <= 30 THEN "16-30"
    ELSE IF ValOf(days) <= 60 THEN "31-60"
    ELSE IF ValOf(days) <= 90 THEN "61-90"
    ELSE IF ValOf(days) <= 120 THEN "91-120"
    ELSE "121+"

(***************************************************************************)
(* Amount comparison                                                       *)
(***************************************************************************)
\* Amount cells: a missing cell is {}, a cell with text t is {t}.  The
\* texts are amounts on a grid of thousandths around 100.00, one of them
\* with a currency sign and a thousands separator, and one non-number.
AmountTexts == {"100.00", "100.005", "100.01", "100.02", "$1,00.00", "n/a"}

AmountCells == {{}} \cup {{t} : t \in AmountTexts}

\* float(str(v).replace(',', '').replace('$', '').strip()): the number in
\* thousandths, or {} where float() raises ValueError
ParseAmount(t) ==
    CASE t = "100.00"   -> Some(100000)
      [] t = "100.005"  -> Some(100005)
      [] t = "100.01"   -> Some(100010)
      [] t = "100.02"   -> Some(100020)
      [] t = "$1,00.00" -> Some(100000)
      [] OTHER          -> {}

\* soa_num / ref_num of a cell: None (here {}) for a missing cell
AmountOf(cell) == IF cell = {} THEN {} ELSE ParseAmount(ValOf(cell))

\* The pairs <<a, b>> of grid amounts for which the IEEE-754 double
\* float(a) - float(b) lies above the exact decimal difference a - b; for
\* every other pair of different grid amounts it lies below (none of the
\* non-zero differences is a binary fraction).
RoundsUp ==
    {<<100000, 100005>>, <<100000, 100020>>, <<100010, 100000>>,
     <<100010, 100005>>, <<100010, 100020>>, <<100020, 100005>>}

\* diff = soa_num - ref_num in double arithmetic: the exact difference in
\* thousandths (ex) and the side on which the double lies (bias)
FloatSub(a, b) ==
    [ex |-> a - b,
     bias |-> IF a = b THEN 0 ELSE IF <<a, b>> \in RoundsUp THEN 1 ELSE -1]

Abs(n) == IF n < 0 THEN -n ELSE n
Sign(n) == IF n < 0 THEN -1 ELSE IF n > 0 THEN 1 ELSE 0

\* whether the double diff is further from zero than its exact decimal
AwayFromZero(diff) == Sign(diff.ex) * diff.bias > 0

\* abs(diff) > 0.01
ExceedsTolerance(diff) ==
    Abs(diff.ex) > 10 \/ (Abs(diff.ex) = 10 /\ AwayFromZero(diff))

\* f"{diff:.2f}": the hundredths printed, the double rounded to nearest
FormatCents(diff) ==
    LET m == Abs(diff.ex)
        q == m \div 10
        r == m % 10
    IN  IF r > 5 \/ (r = 5 /\ AwayFromZero(diff)) THEN q + 1 ELSE q

\* ref_name = ref_col.split('_')[0]
RefName(ref_col) ==
    CASE ref_col = "Ref1_Amount" -> "Ref1"
      [] ref_col = "Ref2_Total"  -> "Ref2"
      [] OTHER                   -> ref_col

\* the entry appended to row_diffs for one reference amount column:
\* "{ref_name}: +{diff:.2f}", "{ref_name}: {diff:.2f}" or "{ref_name}: 0.00"
DiffEntry(ref_col, diff) ==
    IF ExceedsTolerance(diff)
    THEN [ref |-> RefName(ref_col),
          sign |-> IF diff.ex > 0 THEN "+" ELSE "-",
          cents |-> FormatCents(diff)]
    ELSE [ref |-> RefName(ref_col), sign |-> "", cents |-> 0]

\* whether a reference amount column contributes to a row: both the
\* statement amount and the reference amount are present and parse
Compared(soa, ref) == AmountOf(soa) # {} /\ AmountOf(ref) # {}

RECURSIVE SelectIdx(_, _, _)
\* the indices i of 1..n, in order, for which P[i] is true
SelectIdx(P, i, n) ==
    IF i > n THEN <<>>
    ELSE (IF P[i] THEN <<i>> ELSE <<>>) \o SelectIdx(P, i + 1, n)

\* row_diffs of one row (lines 534-560)
RowDiffs(cols, soa, rvals) ==
    LET hit == [i \in 1..Len(cols) |-> Compared(soa, rvals[i])]
        sel == SelectIdx(hit, 1, Len(cols))
    IN  [k \in 1..Len(sel) |->
            DiffEntry(cols[sel[k]],
                      FloatSub(ValOf(AmountOf(soa)), ValOf(AmountOf(rvals[sel[k]]))))]

\* the reference columns of a row whose difference exceeds the tolerance
RowMismatches(cols, soa, rvals) ==
    {i \in 1..Len(cols) :
        /\ Compared(soa, rvals[i])
        /\ ExceedsTolerance(FloatSub(ValOf(AmountOf(soa)),
                                     ValOf(AmountOf(rvals[i]))))}

\* a column or table built row by row, as a sequence
AsSeq(f) == f \o <<>>

(***************************************************************************)
(* Reconciliation run: tables, join and attribution                        *)
(***************************************************************************)
\* self.refs = [None] * 4
NSlots == 4

Slots == 1..NSlots

\* raw match-key cells of loaded files: a plain number and the same number
\* behind two text markers
RawKeys == {<<"5">>, <<"'", "'", "5">>}

\* a statement row: its match-key cell
StmtRows == [key : RawKeys]

\* the kinds of reference row, in the order in which a loaded table lists
\* them: the match-key cell and the cell of the first return column ({}
\* when that cell is empty in the file)
RefRowKinds ==
    << [key |-> <<"5">>, ret |-> {"v"}],
       [key |-> <<"5">>, ret |-> {}],
       [key |-> <<"'", "'", "5">>, ret |-> {"v"}] >>

\* statement tables of at most n rows
StmtTables(n) == UNION {[1..m -> StmtRows] : m \in 0..n}

\* reference tables of 1..n rows, each listing its rows kind by kind
RefTables(n) ==
    UNION {{AsSeq([i \in 1..m |-> RefRowKinds[f[i]]]) :
              f \in {g \in [1..m -> 1..Len(RefRowKinds)] :
                        \A i \in 1..(m - 1) : g[i] <= g[i + 1]}} :
           m \in 1..n}

\* df.shape[0] of an optional table
Rows(t) == IF t = {} THEN 0 ELSE Len(ValOf(t))

RECURSIVE RefRowsLoaded(_, _)
\* rows of the tables in slots k..NSlots
RefRowsLoaded(rs, k) ==
    IF k > NSlots THEN 0 ELSE Rows(rs[k]) + RefRowsLoaded(rs, k + 1)

\* rows of all loaded tables
RowsLoaded == Rows(soa_df) + RefRowsLoaded(refs, 1)

\* df_result = self.soa_df.copy(): the statement rows, none joined yet;
\* src is the row's position in the statement
CopyStatement(t) ==
    AsSeq([i \in 1..Len(t) |->
             [src |-> i, key |-> t[i].key,
              ret |-> AsSeq([k \in Slots |-> {}])]])

\* df[col] = df[col].astype(str).apply(clean_match_value)
CleanKeys(t) ==
    AsSeq([i \in 1..Len(t) |-> [t[i] EXCEPT !.key = clean_match_value(@)]])

RECURSIVE MergeInner(_, _, _, _)
\* mutant of Merge: how='inner', left rows without an equal key are dropped
MergeInner(df, ref, k, i) ==
    IF i > Len(df) THEN <<>>
    ELSE LET hits == SelectSeq(ref, LAMBDA r : r.key = df[i].key)
         IN  AsSeq([j \in 1..Len(hits) |->
                      [df[i] EXCEPT !.ret[k] = hits[j].ret]])
             \o MergeInner(df, ref, k, i + 1)

RECURSIVE Merge(_, _, _, _)
\* pd.merge(df_result, ref_extract, left_on=soa_col, right_on=match_col,
\* how='left') from left row i on: left order kept, one output row per
\* reference row with an equal key, one row of missing values when none
Merge(df, ref, k, i) ==
    IF i > Len(df) THEN <<>>
    ELSE LET hits == SelectSeq(ref, LAMBDA r : r.key = df[i].key)
         IN  (IF hits = <<>>
              THEN <<df[i]>>
              ELSE [j \in 1..Len(hits) |->
                       [df[i] EXCEPT !.ret[k] = hits[j].ret]])
             \o Merge(df, ref, k, i + 1)

RECURSIVE Attribute(_, _, _, _)
\* the loop over match_mask from row i on (lines 445-449): the label of
\* slot k is appended to the list of the matched row's cleaned key
Attribute(df, k, dict, i) ==
    IF i > Len(df) THEN dict
    ELSE LET key == clean_match_value(df[i].key)
             matched == df[i].ret[k] # {}
         IN  Attribute(df, k,
                       IF matched /\ key \in DOMAIN dict
                       THEN [dict EXCEPT ![key] = Append(@, k)]
                       ELSE dict,
                       i + 1)

\* percent = int((current_step / total_steps) * 100); for the step counts
\* and totals of the tables considered here the double arithmetic gives the
\* integer quotient
Percent(step, total) == (step * 100) \div total

\* the list comprehension of lines 458-461: per row, the labels recorded
\* for the cleaned key (", ".join), empty when there are none
MatchSource(df, dict) ==
    AsSeq([i \in 1..Len(df) |->
             LET key == clean_match_value(df[i].key)
             IN  IF key \in DOMAIN dict THEN dict[key] ELSE <<>>])

Status(kind, slot) == [kind |-> kind, slot |-> slot]

\* lines 438-454 of a slot iteration on the loop's running state acc, the
\* reference key column having been cleaned to ref_df: the statement key
\* column is cleaned, the tables are merged, matched rows are attributed
\* and a percentage is emitted per merged row
JoinCleaned(acc, k, ref_df) ==
    LET merged == Merge(CleanKeys(acc.df_result), ref_df, k, 1)
    IN  [acc EXCEPT
           !.statuses = Append(@, Status("Matching", k)),
           !.refs = [@ EXCEPT ![k] = {ref_df}],
           !.df_result = merged,
           !.match_sources_dict = Attribute(merged, k, @, 1),
           !.current_step = @ + Len(merged),
           !.progress = @ \o [i \in 1..Len(merged) |->
                                Percent(acc.current_step + i, acc.total_steps)],
           !.joined = @ \cup {k}]

\* one iteration of the loop over ref_configs for a config that is not
\* None (lines 431-454): the reference key column is cleaned in place
\* (line 437) and the slot is joined
MatchSlot(acc, k) == JoinCleaned(acc, k, CleanKeys(ValOf(acc.refs[k])))

RECURSIVE SlotLoop(_, _)
\* for idx, config in enumerate(self.ref_configs), from slot k on;
\* `continue` for a config that is None
SlotLoop(acc, k) ==
    IF k > NSlots THEN acc
    ELSE IF acc.refs[k] = {} THEN SlotLoop(acc, k + 1)
    ELSE SlotLoop(MatchSlot(acc, k), k + 1)

\* the state of run() when the slot loop starts (lines 374, 422-426)
LoopStart(soa, rs) ==
    LET df == CopyStatement(soa)
    IN  [df_result |-> df,
         match_sources_dict |->
            [key \in {clean_match_value(df[i].key) : i \in 1..Len(df)}
                |-> <<>>],
         total_steps |-> IF Len(df) > 0 THEN NSlots * Len(df) ELSE 1,
         current_step |-> 0,
         refs |-> rs,
         joined |-> {},
         statuses |-> <<Status("Starting reconciliation...", 0)>>,
         progress |-> <<>>]

\* the table handed to reco_complete: the merged rows with 'Match Source'
FinalTable(acc) ==
    LET ms == MatchSource(acc.df_result, acc.match_sources_dict)
    IN  [cols |-> acc.joined,
         rows |-> AsSeq([i \in 1..Len(acc.df_result) |->
                           [src |-> acc.df_result[i].src,
                            key |-> acc.df_result[i].key,
                            ret |-> acc.df_result[i].ret,
                            match_source |-> ms[i]]])]

\* mutant of AgeErrorExit: the handler does not return
AgeErrorFallThrough == "continue"

\* `return  # Stop here if error occurred`
AgeErrorExit == "return"

\* the harnesses not running in a specification stay in these states
NormIdle ==
    nrm_pc = "off" /\ nrm_val = <<>> /\ nrm_once = <<>> /\ nrm_twice = <<>>

AgeIdle ==
    /\ age_pc = "off" /\ age_today = 0 /\ age_date = NaT
    /\ age_days = NaN /\ age_bucket = ""

AmtIdle ==
    /\ amt_pc = "off" /\ ref_amount_cols = <<>> /\ amt_rows = <<>>
    /\ amount_diff_data = <<>> /\ amt_flags = {} /\ mismatch_count = 0

RunIdle ==
    /\ soa_df = {} /\ soa_date_col = FALSE /\ refs = [k \in Slots |-> {}]
    /\ pc = "off" /\ age_raised = FALSE
    /\ statuses = <<>> /\ progress = <<>> /\ debug_log = <<>>
    /\ result = {} /\ prev_result = {}

StageIdle ==
    locals = {} /\ next_slot = 0 /\ completions = 0 /\ caught = <<>>

DateIdle ==
    dt_pc = "off" /\ dt_name = <<>> /\ dt_orig = <<>> /\ dt_cells = <<>>

ColIdle ==
    /\ col_pc = "off" /\ soa_cols = <<>> /\ soa_match = <<>>
    /\ ref_configs = <<>> /\ col_idx = 0 /\ all_cols = <<>>
    /\ prev_cols = <<>> /\ compared_cols = <<>>

ConcIdle ==
    /\ w_pc = <<>> /\ w_slot = <<>> /\ w_locals = <<>>
    /\ w_begin = <<>> /\ w_result = <<>>

ExtIdle == StageIdle /\ DateIdle /\ ColIdle /\ ConcIdle

(***************************************************************************)
(* SpecNorm: the normaliser applied once and then again to its own result  *)
(***************************************************************************)
NormInit ==
    /\ nrm_pc = "ready"
    /\ nrm_val \in KeyStrings
    /\ nrm_once = <<>>
    /\ nrm_twice = <<>>
    /\ AgeIdle
    /\ AmtIdle
    /\ RunIdle
    /\ ExtIdle

\* first application, as on the raw statement or reference key
NormalizeOnce ==
    /\ nrm_pc = "ready"
    /\ nrm_once' = clean_match_value(nrm_val)
    /\ nrm_pc' = "once"
    /\ UNCHANGED <<nrm_val, nrm_twice, ageVars, amtVars, runVars, extVars>>

\* second application, as on the already cleaned key column in a later slot
NormalizeTwice ==
    /\ nrm_pc = "once"
    /\ nrm_twice' = clean_match_value(nrm_once)
    /\ nrm_pc' = "twice"
    /\ UNCHANGED <<nrm_val, nrm_once, ageVars, amtVars, runVars, extVars>>

NormNext == NormalizeOnce \/ NormalizeTwice

SpecNorm == NormInit /\ [][NormNext]_vars

(***************************************************************************)
(* Claims about the normaliser                                             *)
(***************************************************************************)
\* C1: key normalisation is idempotent: normalising an already normalised
\* key returns it unchanged, for every input string.
C1_Idempotent == nrm_pc = "twice" => nrm_twice = nrm_once

\* the numeric value of a digit string
RECURSIVE NumVal(_)
NumVal(s) ==
    IF s = <<>> THEN 0
    ELSE 10 * NumVal(SubSeq(s, 1, Len(s) - 1))
         + (IF s[Len(s)] = "5" THEN 5 ELSE 0)

\* t is x without its leading and trailing whitespace: x is i blanks, then
\* t, then j blanks, and t neither starts nor ends with a blank
IsTrimOf(t, x, i, j) ==
    /\ i + j <= Len(x)
    /\ t = SubSeq(x, i + 1, Len(x) - j)
    /\ \A k \in 1..i : x[k] = " "
    /\ \A k \in (Len(x) - j + 1)..Len(x) : x[k] = " "
    /\ (t = <<>> \/ (t[1] # " " /\ t[Len(t)] # " "))

\* t without one leading apostrophe, if it has one
WithoutOneQuote(t) ==
    IF t # <<>> /\ t[1] = "'" THEN SubSeq(t, 2, Len(t)) ELSE t

\* C9: a string that is all digits after trimming and removing one leading
\* apostrophe normalises to the same number written without leading zeros
\* ("0" when it is all zeros); every other string is returned trimmed and
\* unquoted but otherwise unchanged.
C9_ZeroStripping ==
    nrm_pc # "ready" =>
        \E i, j \in 0..Len(nrm_val) :
            LET t == SubSeq(nrm_val, i + 1, Len(nrm_val) - j)
                u == WithoutOneQuote(t)
            IN  /\ IsTrimOf(t, nrm_val, i, j)
                /\ IF u # <<>> /\ \A k \in 1..Len(u) : u[k] \in Digits
                   THEN /\ nrm_once # <<>>
                        /\ \A k \in 1..Len(nrm_once) : nrm_once[k] \in Digits
                        /\ NumVal(nrm_once) = NumVal(u)
                        /\ (nrm_once = <<"0">> \/ nrm_once[1] # "0")
                   ELSE nrm_once = u

\* C9 witness: a quoted zero-padded number, with blanks around it, was
\* normalised to the bare number
C9_Witness ==
    /\ nrm_pc = "once"
    /\ nrm_val = <<" ", "'", "0", "5">>
    /\ nrm_once = <<"5">>

(***************************************************************************)
(* SpecAge: the age stage on one statement date cell                       *)
(***************************************************************************)
\* the date cells: unparsable (NaT), or a time from MaxPastDays before to
\* MaxFutureDays after the run date, at midnight or at noon
DateTicks ==
    (-(TicksPerDay * MaxPastDays))..(TicksPerDay * MaxFutureDays + 1)

AgeInit ==
    /\ age_pc = "ready"
    /\ age_today \in 0..(TicksPerDay - 1)
    /\ age_date \in {Some(t) : t \in DateTicks} \cup {NaT}
    /\ age_days = NaN
    /\ age_bucket = ""
    /\ NormIdle
    /\ AmtIdle
    /\ RunIdle
    /\ ExtIdle

\* df_result['Age (Days)'] = (today - temp_dates).dt.days, then
\* df_result['Age Bucket'] = df_result['Age (Days)'].apply(bucket)
ComputeAge ==
    /\ age_pc = "ready"
    /\ age_days' = AgeDays(age_today, age_date)
    /\ age_bucket' = bucket(AgeDays(age_today, age_date))
    /\ age_pc' = "done"
    /\ UNCHANGED <<age_today, age_date, normVars, amtVars, runVars, extVars>>

AgeNext == ComputeAge

SpecAge == AgeInit /\ [][AgeNext]_vars

\* C8: every age maps to the bucket given by the ordered inclusive bounds:
\* a missing age to "Unknown", an age of at most 15 days (every negative age
\* of a future date included) to "0-15", 16..30 to "16-30", 31..60 to
\* "31-60", 61..90 to "61-90", 91..120 to "91-120" and 121 or more to
\* "121+"; the age is the whole number of days from the date to today,
\* rounded down, and is missing exactly for an unparsable date.
C8_AgeBuckets ==
    age_pc = "done" =>
        /\ (age_date = NaT) = (age_days = NaN)
        /\ age_days = NaN => age_bucket = "Unknown"
        /\ age_days # NaN =>
              LET d == ValOf(age_days)
                  elapsed == age_today - ValOf(age_date)
              IN  /\ TicksPerDay * d <= elapsed
                  /\ elapsed < TicksPerDay * (d + 1)
                  /\ age_bucket \in
                        {"0-15", "16-30", "31-60", "61-90", "91-120", "121+"}
                  /\ (age_bucket = "0-15") = (d <= 15)
                  /\ (age_bucket = "16-30") = (d \in 16..30)
                  /\ (age_bucket = "31-60") = (d \in 31..60)
                  /\ (age_bucket = "61-90") = (d \in 61..90)
                  /\ (age_bucket = "91-120") = (d \in 91..120)
                  /\ (age_bucket = "121+") = (d >= 121)

\* C8 witness: a date in the future of the run date got a negative age and
\* the first bucket
C8_Witness ==
    /\ age_pc = "done"
    /\ age_days # NaN
    /\ ValOf(age_days) < 0
    /\ age_bucket = "0-15"

(***************************************************************************)
(* SpecAmt: the amount comparison (lines 509-576), one row per step        *)
(***************************************************************************)
\* the statement amount column, as a column of the merged table
SoaAmtCol == "Amount"

AmtInit ==
    /\ amt_pc = "rows"
    /\ ref_amount_cols \in {<<"Ref1_Amount">>, <<"Ref1_Amount", "Ref2_Total">>}
    /\ amt_rows = <<>>
    /\ amount_diff_data = <<>>
    /\ amt_flags = {}
    /\ mismatch_count = 0
    /\ NormIdle
    /\ AgeIdle
    /\ RunIdle
    /\ ExtIdle

\* one iteration of `for row_idx in range(len(df_result))`
AnnotateRow ==
    /\ amt_pc = "rows"
    /\ Len(amt_rows) < MaxAmtRows
    /\ \E soa \in AmountCells, rvals \in [1..Len(ref_amount_cols) -> AmountCells] :
         LET row_idx == Len(amt_rows) + 1
             bad == RowMismatches(ref_amount_cols, soa, rvals)
         IN  /\ amt_rows' = Append(amt_rows, [soa |-> soa, refs |-> rvals])
             /\ amount_diff_data' =
                    Append(amount_diff_data, RowDiffs(ref_amount_cols, soa, rvals))
             /\ amt_flags' = amt_flags
                    \cup (IF bad = {} THEN {} ELSE {<<row_idx, SoaAmtCol>>})
                    \cup {<<row_idx, ref_amount_cols[i]>> : i \in bad}
             /\ mismatch_count' = mismatch_count + Cardinality(bad)
    /\ UNCHANGED <<amt_pc, ref_amount_cols, normVars, ageVars, runVars, extVars>>

\* the loop ends: 'Amount Difference' is added and the count is reported
AmtFinish ==
    /\ amt_pc = "rows"
    /\ amt_pc' = "done"
    /\ UNCHANGED <<ref_amount_cols, amt_rows, amount_diff_data, amt_flags,
                   mismatch_count, normVars, ageVars, runVars, extVars>>

AmtNext == AnnotateRow \/ AmtFinish

SpecAmt == AmtInit /\ [][AmtNext]_vars

\* the slot label expected for each reference amount column
SlotLabelOf == [Ref1_Amount |-> "Ref1", Ref2_Total |-> "Ref2"]

\* the entries of row r that carry the slot label of reference column c
EntriesFor(r, c) ==
    {k \in 1..Len(amount_diff_data[r]) :
        amount_diff_data[r][k].ref = SlotLabelOf[c]}

\* C7: for every row and reference amount column where both amounts parse,
\* with diff = statement amount - reference amount: if |diff| > 0.01, one
\* entry for the slot is recorded with the sign of diff ('+' when
\* positive) and diff to two decimals, and both the statement amount cell
\* and the reference amount cell of the row are flagged; if |diff| <= 0.01
\* the entry "{slot}: 0.00" is recorded and the reference cell is not
\* flagged (the statement cell only if another column flags it).
C7_Threshold ==
    \A r \in 1..Len(amt_rows) : \A i \in 1..Len(ref_amount_cols) :
        LET soa == amt_rows[r].soa
            ref == amt_rows[r].refs[i]
            col == ref_amount_cols[i]
        IN  Compared(soa, ref) =>
              LET d == ValOf(AmountOf(soa)) - ValOf(AmountOf(ref))
                  e == amount_diff_data[r][CHOOSE k \in EntriesFor(r, col) : TRUE]
              IN  /\ Cardinality(EntriesFor(r, col)) = 1
                  /\ IF Abs(d) > 10
                     THEN /\ e.sign = (IF d > 0 THEN "+" ELSE "-")
                          /\ e.cents \in {Abs(d) \div 10, (Abs(d) + 9) \div 10}
                          /\ <<r, col>> \in amt_flags
                          /\ <<r, SoaAmtCol>> \in amt_flags
                     ELSE /\ e.sign = "" /\ e.cents = 0
                          /\ <<r, col>> \notin amt_flags
                          /\ (<<r, SoaAmtCol>> \in amt_flags =>
                                \E j \in 1..Len(ref_amount_cols) :
                                    <<r, ref_amount_cols[j]>> \in amt_flags)

\* C17: the mismatch count reported by the amount comparison equals the
\* number of distinct (row, column) cells flagged for highlighting,
\* counting both flagged statement-amount cells and flagged
\* reference-amount cells, for every table and every number of reference
\* amount columns.
C17_CountIsFlaggedCells ==
    amt_pc = "done" => mismatch_count = Cardinality(amt_flags)

(***************************************************************************)
(* Spec: the host loads tables and starts runs; the worker runs            *)
(***************************************************************************)
\* Oi360App.__init__: nothing loaded, no worker
Init ==
    /\ soa_df = {}
    /\ soa_date_col = FALSE
    /\ refs = [k \in Slots |-> {}]
    /\ pc = "idle" /\ age_raised = FALSE
    /\ statuses = <<>> /\ progress = <<>> /\ debug_log = <<>>
    /\ result = {} /\ prev_result = {}
    /\ NormIdle
    /\ AgeIdle
    /\ AmtIdle
    /\ ExtIdle

\* Oi360App.load_soa with the column dialog confirmed: the table and its
\* match and date columns are stored.  The files of a session are loaded
\* before its first run.
load_soa ==
    /\ pc = "idle"
    /\ \E t \in StmtTables(MaxRows - RefRowsLoaded(refs, 1)) : soa_df' = {t}
    /\ soa_date_col' = TRUE
    /\ UNCHANGED <<refs, workerVars, channelVars, normVars, ageVars, amtVars,
                   extVars>>

\* Oi360App.load_ref(idx) with the column dialog confirmed, for a slot
\* not loaded before
load_ref ==
    /\ pc = "idle"
    /\ \E k \in Slots, t \in RefTables(MaxRows - RowsLoaded) :
         /\ refs[k] = {}
         /\ refs' = [refs EXCEPT ![k] = {t}]
    /\ UNCHANGED <<soa_df, soa_date_col, workerVars, channelVars, normVars,
                   ageVars, amtVars, extVars>>

\* Oi360App.run_reco: a new RecoWorker is built on the loaded tables and
\* started (the second start() of a started thread does nothing)
run_reco ==
    /\ pc \in {"idle", "finished", "aborted"}
    /\ soa_df # {}
    /\ pc' = "started"
    /\ age_raised' = FALSE
    /\ statuses' = <<>> /\ progress' = <<>> /\ debug_log' = <<>>
    /\ prev_result' = result
    /\ result' = {}
    /\ UNCHANGED <<hostVars, normVars, ageVars, amtVars, extVars>>

\* the rest of run() after the age stage (lines 409-587), entered with the
\* statuses sts emitted so far: the slot loop, 'Match Source', the
\* completion status, 100, and reco_complete
RunRest(sts) ==
    LET acc == SlotLoop(LoopStart(ValOf(soa_df), refs), 1)
    IN  /\ refs' = acc.refs
        /\ statuses' = sts \o acc.statuses
                          \o <<Status("Reconciliation Complete", 0)>>
        /\ progress' = progress \o acc.progress \o <<100>>
        /\ result' = {FinalTable(acc)}
        /\ pc' = "finished"

\* RecoWorker.run when the age stage does not raise
RunCompletes ==
    /\ pc = "started"
    /\ RunRest(statuses)
    /\ UNCHANGED <<soa_df, soa_date_col, age_raised, debug_log, prev_result,
                   normVars, ageVars, amtVars, extVars>>

\* RecoWorker.run when computing the ages raises (lines 378-407): the
\* handler emits the warning, logs it and leaves run()
RunAgeRaises ==
    /\ pc = "started"
    /\ soa_date_col
    /\ age_raised' = TRUE
    /\ debug_log' = Append(debug_log, Status("Age Bucket Error", 0))
    /\ LET sts == Append(statuses, Status("[WARNING] Age Bucket Error", 0))
       IN  IF AgeErrorExit = "return"
           THEN /\ statuses' = sts
                /\ pc' = "aborted"
                /\ UNCHANGED <<refs, progress, result>>
           ELSE RunRest(sts)
    /\ UNCHANGED <<soa_df, soa_date_col, prev_result, normVars, ageVars,
                   amtVars, extVars>>

Next ==
    \/ load_soa
    \/ load_ref
    \/ run_reco
    \/ RunCompletes
    \/ RunAgeRaises

Spec == Init /\ [][Next]_vars

(***************************************************************************)
(* Claims about a reconciliation run                                       *)
(***************************************************************************)
\* the table emitted by the run that has just completed
Emitted == ValOf(result)

\* C2: for every row of the final table and every present reference slot k
\* that was joined, the row's 'Match Source' contains the label Ref{k} if
\* and only if the row's first return column of slot k is non-missing, also
\* when a statement key joins several reference rows of which only some
\* have a non-missing first return value.
C2_LabelIffReturned ==
    pc = "finished" =>
        \A i \in 1..Len(Emitted.rows) : \A k \in Emitted.cols :
            LET row == Emitted.rows[i]
            IN  (\E j \in 1..Len(row.match_source) : row.match_source[j] = k)
                    <=> row.ret[k] # {}

\* the slots that match a key of the final table: those with a non-missing
\* first return value on some output row with that key
MatchedSlots(key) ==
    {k \in Emitted.cols :
        \E i \in 1..Len(Emitted.rows) :
            Emitted.rows[i].key = key /\ Emitted.rows[i].ret[k] # {}}

RECURSIVE InSlotOrder(_, _)
\* the slots of S from slot k on, each once, in increasing order
InSlotOrder(S, k) ==
    IF k > NSlots THEN <<>>
    ELSE (IF k \in S THEN <<k>> ELSE <<>>) \o InSlotOrder(S, k + 1)

\* C3: if a statement key is matched by exactly the set S of reference
\* slots, every output row with that key has 'Match Source' equal to the
\* labels Ref{k} for k in S, each label once, in increasing slot order, for
\* any statement (repeated keys included) and any reference tables (several
\* rows per key included).
C3_LabelsOnceInSlotOrder ==
    pc = "finished" =>
        \A i \in 1..Len(Emitted.rows) :
            Emitted.rows[i].match_source
                = InSlotOrder(MatchedSlots(Emitted.rows[i].key), 1)

\* C4: every percentage emitted on update_progress during a run is an
\* integer in 0..100, for any number of statement rows, any subset of
\* present reference slots and any number of reference rows per key.
C4_PercentInRange ==
    \A i \in 1..Len(progress) : progress[i] \in 0..100

\* C5: within one run that completes, the sequence of values emitted on
\* update_progress is non-decreasing and its last value is 100.
C5_ProgressMonotone ==
    pc = "finished" =>
        /\ progress # <<>>
        /\ progress[Len(progress)] = 100
        /\ \A i \in 1..(Len(progress) - 1) : progress[i] <= progress[i + 1]

\* C6: starting the reconciliation twice in the same session with the same
\* loaded statement, reference tables and column configuration yields
\* identical merged tables: the first run leaves nothing behind that
\* changes what the second run matches.
C6_RerunIdentical ==
    (pc = "finished" /\ prev_result # {}) => result = prev_result

\* C10: if computing the ages raises, the run is aborted: a warning status
\* is emitted, no reference slot is processed, and reco_complete is not
\* emitted for that run.
C10_AgeErrorAborts ==
    age_raised =>
        /\ pc = "aborted"
        /\ result = {}
        /\ progress = <<>>
        /\ \E i \in 1..Len(statuses) :
              statuses[i].kind = "[WARNING] Age Bucket Error"
        /\ \A i \in 1..Len(statuses) :
              statuses[i].kind \notin {"Matching", "Reconciliation Complete"}

\* a run over a non-empty statement and a loaded reference slot whose age
\* stage raised: the warning is the only status of the run
C10_Witness ==
    /\ age_raised
    /\ pc = "aborted"
    /\ soa_df # {} /\ Rows(soa_df) > 0
    /\ \E k \in Slots : refs[k] # {}
    /\ Len(statuses) = 1

\* whether no two rows of the table t have the same key
UniqueKeys(t) ==
    \A i, j \in 1..Len(t) : t[i].key = t[j].key => i = j

\* C15: left-join row preservation: after any sequence of slot joins every
\* statement row appears at least once in the merged table, the output
\* rows derived from statement row i all precede those derived from
\* statement row j whenever i < j, and when every reference table has at
\* most one row per normalized key (the key column as the run cleaned it)
\* the merged table has exactly as many rows as the statement.
C15_LeftJoinKeepsRows ==
    pc = "finished" =>
        LET rows == Emitted.rows
            soa == ValOf(soa_df)
        IN  /\ \A i \in 1..Len(soa) : \E n \in 1..Len(rows) : rows[n].src = i
            /\ \A m, n \in 1..Len(rows) : m < n => rows[m].src <= rows[n].src
            /\ (\A k \in Emitted.cols : UniqueKeys(ValOf(refs[k])))
                  => Len(rows) = Len(soa)

\* a completed run over three statement rows and two joined references
\* with one row per key: one statement row is matched, another is not, and
\* the table has the statement's three rows
C15_Witness ==
    /\ pc = "finished"
    /\ Rows(soa_df) = 3
    /\ Cardinality(Emitted.cols) = 2
    /\ \A k \in Emitted.cols : UniqueKeys(ValOf(refs[k]))
    /\ Len(Emitted.rows) = 3
    /\ \E m, n \in 1..3, k \in Emitted.cols :
          Emitted.rows[m].ret[k] # {} /\ Emitted.rows[n].ret[k] = {}

\* C19: in every slot the statement key and the reference key that are
\* compared are both normalize(raw value): a statement row and a
\* reference row with the same raw key join in slot k regardless of how
\* many slots were processed before k, and the key used to look up and to
\* record attribution for a row is the key under which the row was entered
\* in the attribution map.
C19_KeysNormalizedOnce ==
    (pc = "finished" /\ Emitted.cols # {}) =>
        \A n \in 1..Len(Emitted.rows) :
            LET row == Emitted.rows[n]
                entered == clean_match_value(ValOf(soa_df)[row.src].key)
            IN  /\ row.key = entered
                /\ clean_match_value(row.key) = entered
                /\ \A k \in Emitted.cols :
                     \A j \in 1..Len(ValOf(refs[k])) :
                        ValOf(refs[k])[j].key = entered =>
                            \E m \in 1..Len(Emitted.rows) :
                                /\ Emitted.rows[m].src = row.src
                                /\ Emitted.rows[m].ret[k] = ValOf(refs[k])[j].ret

(***************************************************************************)
(* SpecStages: one run of RecoWorker.run stage by stage, each try block    *)
(* either completing or raising into its except handler                    *)
(***************************************************************************)
\* most statement rows of a staged run
MaxStageRows == 1

\* the handler of the slot loop returns from run()
SlotErrorReturn == "return"

\* the except clause of the slot loop (lines 455-457) ends the iteration
\* and the loop goes on with the next config
SlotErrorExit == "continue"

\* the handler of the output stage returns from run()
ExcelErrorReturn == "return"

\* after the except clause of the output stage (lines 583-585) run() goes
\* on to reco_complete.emit (line 587)
ExcelErrorExit == "continue"

\* an except handler entered: its site and, for the slot loop, the slot
Caught(site, slot) == [site |-> site, slot |-> slot]

\* the slots holding a reference table
PresentSlots == {k \in Slots : refs[k] # {}}

\* the statements of a slot iteration that may raise: the cleaning of the
\* reference key column (line 437, match column missing), the extract
\* (line 440, return column missing) and the match mask (line 444, empty
\* return-column list)
RaisePoints == {"clean", "extract", "mask"}

\* df_result after the merge of line 443 with an extract that has no
\* return columns: the rows are those of the merge, no value is brought in
MergedBare(df, ref_df, k) ==
    LET merged == Merge(df, ref_df, k, 1)
    IN  AsSeq([i \in 1..Len(merged) |-> [merged[i] EXCEPT !.ret[k] = {}]])

\* the slot iteration of lines 431-457 when the statement at point raises:
\* the status of line 433 was emitted; past line 437 the reference key
\* column and past line 438 the statement key column were cleaned; past
\* line 443 df_result is the merged table; the handler emits
\* "Error matching Ref{k}"
SlotRaises(acc, k, point) ==
    LET ref_df == CleanKeys(ValOf(acc.refs[k]))
    IN  [acc EXCEPT
           !.statuses = @ \o <<Status("Matching", k),
                               Status("Error matching", k)>>,
           !.refs = IF point = "clean" THEN @ ELSE [@ EXCEPT ![k] = {ref_df}],
           !.df_result =
              CASE point = "clean" -> @
                [] point = "extract" -> CleanKeys(@)
                [] point = "mask" -> MergedBare(CleanKeys(@), ref_df, k)]

\* the loop state after a step, and what the step emitted and wrote
Publish(acc) ==
    /\ locals' = {acc}
    /\ refs' = acc.refs
    /\ statuses' = acc.statuses
    /\ progress' = acc.progress

\* a worker constructed by run_reco on a statement and reference tables of
\* one row each, and started
StageInit ==
    /\ soa_df \in {{t} : t \in StmtTables(MaxStageRows)}
    /\ soa_date_col \in BOOLEAN
    /\ refs \in [Slots -> {{}} \cup {{t} : t \in RefTables(1)}]
    /\ pc = "started" /\ age_raised = FALSE
    /\ statuses = <<>> /\ progress = <<>> /\ debug_log = <<>>
    /\ result = {} /\ prev_result = {}
    /\ locals = {} /\ next_slot = 0 /\ completions = 0 /\ caught = <<>>
    /\ NormIdle
    /\ AgeIdle
    /\ AmtIdle
    /\ DateIdle
    /\ ColIdle
    /\ ConcIdle

\* lines 374-400 and 422-426: the age stage passes (or there is no date
\* column) and the loop state is set up
StageAgePasses ==
    /\ pc = "started"
    /\ Publish(LoopStart(ValOf(soa_df), refs))
    /\ next_slot' = 1
    /\ pc' = "loop"
    /\ UNCHANGED <<soa_df, soa_date_col, age_raised, debug_log, result,
                   prev_result, completions, caught, outsideStages>>

\* lines 401-407: the age stage raises
StageAgeRaises ==
    /\ pc = "started"
    /\ soa_date_col
    /\ age_raised' = TRUE
    /\ debug_log' = Append(debug_log, Status("Age Bucket Error", 0))
    /\ caught' = Append(caught, Caught("age", 0))
    /\ LET warning == Status("[WARNING] Age Bucket Error", 0)
           acc == LoopStart(ValOf(soa_df), refs)
       IN  IF AgeErrorExit = "return"
           THEN /\ statuses' = Append(statuses, warning)
                /\ pc' = "aborted"
                /\ UNCHANGED <<refs, progress, locals, next_slot>>
           ELSE /\ Publish([acc EXCEPT !.statuses = <<warning>> \o @])
                /\ next_slot' = 1
                /\ pc' = "loop"
    /\ UNCHANGED <<soa_df, soa_date_col, result, prev_result, completions,
                   outsideStages>>

\* lines 429-430: `continue` for a config that is None
StageSlotAbsent ==
    /\ pc = "loop"
    /\ next_slot <= NSlots
    /\ refs[next_slot] = {}
    /\ next_slot' = next_slot + 1
    /\ UNCHANGED <<hostVars, workerVars, channelVars, locals, completions,
                   caught, outsideStages>>

\* lines 431-454: the slot is joined
StageSlotJoins ==
    /\ pc = "loop"
    /\ next_slot <= NSlots
    /\ refs[next_slot] # {}
    /\ Publish(MatchSlot(ValOf(locals), next_slot))
    /\ next_slot' = next_slot + 1
    /\ UNCHANGED <<soa_df, soa_date_col, workerVars, debug_log, result,
                   prev_result, completions, caught, outsideStages>>

\* lines 431-457: a statement of the slot raises; the handler logs and
\* emits a status
StageSlotRaises ==
    /\ pc = "loop"
    /\ next_slot <= NSlots
    /\ refs[next_slot] # {}
    /\ \E point \in RaisePoints :
         Publish(SlotRaises(ValOf(locals), next_slot, point))
    /\ debug_log' = Append(debug_log, Status("Match Error", next_slot))
    /\ caught' = Append(caught, Caught("slot", next_slot))
    /\ IF SlotErrorExit = "continue"
       THEN next_slot' = next_slot + 1 /\ pc' = pc
       ELSE next_slot' = next_slot /\ pc' = "aborted"
    /\ UNCHANGED <<soa_df, soa_date_col, age_raised, result, prev_result,
                   completions, outsideStages>>

\* lines 458-465: 'Match Source', the completion status and 100
StageComplete ==
    /\ pc = "loop"
    /\ next_slot > NSlots
    /\ statuses' = Append(statuses, Status("Reconciliation Complete", 0))
    /\ progress' = Append(progress, 100)
    /\ pc' = "cleanup"
    /\ UNCHANGED <<hostVars, age_raised, debug_log, result, prev_result,
                   stageVars, outsideStages>>

\* lines 467-477: the date columns are tidied; a column that raises is
\* logged by the handler of line 477
StageDateCleanup ==
    /\ pc = "cleanup"
    /\ \E raises \in BOOLEAN :
         IF raises
         THEN /\ debug_log' = Append(debug_log, Status("Date cleanup error", 0))
              /\ caught' = Append(caught, Caught("date cleanup", 0))
         ELSE UNCHANGED <<debug_log, caught>>
    /\ pc' = "excel"
    /\ UNCHANGED <<hostVars, age_raised, statuses, progress, result,
                   prev_result, locals, next_slot, completions, outsideStages>>

\* what the amount loop of lines 522-565 leaves on the channels when a row
\* raises (handler of lines 561-563: log only) and when a reference cell
\* does not parse (handler of lines 559-560: pass)
AmountHandlers(rowErr, parseErr) ==
    [log |-> IF rowErr
             THEN <<Status("Amount highlighting error", 0)>> ELSE <<>>,
     caught |-> (IF parseErr THEN <<Caught("amount parse", 0)>> ELSE <<>>)
                \o (IF rowErr THEN <<Caught("amount row", 0)>> ELSE <<>>)]

\* line 587: reco_complete.emit(df_result)
EmitComplete ==
    /\ result' = {FinalTable(ValOf(locals))}
    /\ completions' = completions + 1

\* lines 479-587: the workbook is written, the amount status is emitted
\* and the table is handed over
StageExcelWrites ==
    /\ pc = "excel"
    /\ \E rowErr, parseErr \in BOOLEAN :
         LET h == AmountHandlers(rowErr, parseErr)
         IN  /\ debug_log' = debug_log \o h.log
             /\ caught' = caught \o h.caught
    /\ statuses' = Append(statuses, Status("Amount comparison", 0))
    /\ EmitComplete
    /\ pc' = "finished"
    /\ UNCHANGED <<hostVars, age_raised, progress, prev_result, locals,
                   next_slot, outsideStages>>

\* lines 479-587: writing or formatting the workbook raises; the handler
\* of lines 583-585 logs and emits a status
StageExcelRaises ==
    /\ pc = "excel"
    /\ \E rowErr, parseErr \in BOOLEAN :
         LET h == AmountHandlers(rowErr, parseErr)
         IN  /\ debug_log' = debug_log \o h.log
                                \o <<Status("Excel Write Error", 0)>>
             /\ caught' = caught \o h.caught \o <<Caught("excel", 0)>>
    /\ statuses' = Append(statuses, Status("Error saving Excel", 0))
    /\ IF ExcelErrorExit = "continue"
       THEN EmitComplete
       ELSE UNCHANGED <<result, completions>>
    /\ pc' = "finished"
    /\ UNCHANGED <<hostVars, age_raised, progress, prev_result, locals,
                   next_slot, outsideStages>>

StageNext ==
    \/ StageAgePasses
    \/ StageAgeRaises
    \/ StageSlotAbsent
    \/ StageSlotJoins
    \/ StageSlotRaises
    \/ StageComplete
    \/ StageDateCleanup
    \/ StageExcelWrites
    \/ StageExcelRaises

SpecStages == StageInit /\ [][StageNext]_vars

(***************************************************************************)
(* Claims about error handling in a run                                    *)
(***************************************************************************)
\* whether the sequence seq holds the entry e
Has(seq, e) == \E i \in 1..Len(seq) : seq[i] = e

\* the slots whose iteration raised in this run
RaisedSlots == {k \in Slots : Has(caught, Caught("slot", k))}

\* C11: if processing reference slot k raises, the exception is caught,
\* written to the debug log and emitted as a status naming Ref{k}; every
\* later present slot is still processed and the run still reaches
\* 'Reconciliation Complete', progress 100 and reco_complete.
C11_SlotErrorRecovered ==
    /\ \A k \in RaisedSlots :
          /\ Has(debug_log, Status("Match Error", k))
          /\ Has(statuses, Status("Error matching", k))
    /\ (~age_raised) => pc # "aborted"
    /\ pc = "finished" =>
          /\ \A k \in PresentSlots : Has(statuses, Status("Matching", k))
          /\ ValOf(locals).joined = PresentSlots \ RaisedSlots
          /\ Has(statuses, Status("Reconciliation Complete", 0))
          /\ progress[Len(progress)] = 100
          /\ completions = 1

\* a completed run in which a slot raised and a later slot was joined and
\* matched a statement row
C11_Witness ==
    /\ pc = "finished"
    /\ completions = 1
    /\ \E k \in RaisedSlots : \E j \in ValOf(locals).joined :
          /\ j > k
          /\ \E i \in 1..Len(ValOf(result).rows) :
                ValOf(result).rows[i].ret[j] # {}

\* C12: every run that gets past the age stage emits reco_complete exactly
\* once with the in-memory merged table, also when writing or formatting
\* the Excel document raises (the failure is caught and reported as a
\* status message).
C12_CompleteExactlyOnce ==
    /\ completions <= 1
    /\ pc \in {"loop", "cleanup", "excel"} => completions = 0
    /\ pc = "finished" =>
          /\ completions = 1
          /\ result = {FinalTable(ValOf(locals))}
          /\ Has(caught, Caught("excel", 0)) =>
                Has(statuses, Status("Error saving Excel", 0))

\* a completed run whose output stage raised after a slot was joined
C12_Witness ==
    /\ pc = "finished"
    /\ Has(caught, Caught("excel", 0))
    /\ completions = 1
    /\ ValOf(locals).joined # {}
    /\ Len(ValOf(result).rows) > 0

\* the debug-log record and the status message of each handler
HandlerLog ==
    [age |-> "Age Bucket Error", slot |-> "Match Error",
     excel |-> "Excel Write Error"]

HandlerStatus ==
    [age |-> "[WARNING] Age Bucket Error", slot |-> "Error matching",
     excel |-> "Error saving Excel"]

\* C13: every exception caught inside a run (age stage, per-slot join,
\* date-column cleanup, per-row amount comparison, output writing) results
\* in both a debug-log record and an emitted status message; none is
\* reported on only one of the two channels or on neither.
C13_LoggedAndReported ==
    \A i \in 1..Len(caught) :
        /\ caught[i].site \in DOMAIN HandlerLog
        /\ Has(debug_log, Status(HandlerLog[caught[i].site], caught[i].slot))
        /\ Has(statuses,
               Status(HandlerStatus[caught[i].site], caught[i].slot))

\* whether this step is a slot iteration that raised
SlotRaisedNow ==
    /\ pc = "loop"
    /\ Len(caught') = Len(caught) + 1
    /\ caught'[Len(caught')].site = "slot"

\* C21: a reference slot whose processing raises behaves as if it had
\* been skipped: after the failure the merged table (rows, columns,
\* statement key values) and the attribution map are equal to what they
\* were before that slot started, whichever statement inside the slot
\* raised.
C21_FailedSlotSkipped ==
    [][SlotRaisedNow =>
          /\ ValOf(locals').df_result = ValOf(locals).df_result
          /\ ValOf(locals').joined = ValOf(locals).joined
          /\ ValOf(locals').match_sources_dict
                = ValOf(locals).match_sources_dict]_vars

(***************************************************************************)
(* SpecDate: the statement's date column through a completed run           *)
(***************************************************************************)
\* most rows of the date column
MaxDateRows == 2

\* the text of a string literal, character by character
Chars(str) ==
    CASE str = "date" -> <<"d", "a", "t", "e">>
      [] str = "dt" -> <<"d", "t">>
      [] str = "dated" -> <<"d", "a", "t", "e", "d">>
      [] str = "00:00:00" -> <<"0", "0", ":", "0", "0", ":", "0", "0">>
      [] str = "nan" -> <<"n", "a", "n">>
      [] str = "NaT" -> <<"N", "a", "T">>
      [] str = "5/1" -> <<"5", "/", "1">>
      [] str = "Date" -> <<"D", "a", "t", "e">>
      [] str = "DT" -> <<"D", "T">>
      [] str = "Due" -> <<"D", "u", "e">>
      [] str = "When" -> <<"W", "h", "e", "n">>
      [] str = "amount" -> <<"a", "m", "o", "u", "n", "t">>
      [] str = "amt" -> <<"a", "m", "t">>
      [] str = "value" -> <<"v", "a", "l", "u", "e">>
      [] str = "total" -> <<"t", "o", "t", "a", "l">>
      [] str = "sum" -> <<"s", "u", "m">>
      [] str = "price" -> <<"p", "r", "i", "c", "e">>
      [] str = "cost" -> <<"c", "o", "s", "t">>
      [] str = "Ref" -> <<"R", "e", "f">>
      [] str = "Separator" -> <<"S", "e", "p", "a", "r", "a", "t", "o", "r">>
      [] str = "Match Source" -> <<"M", "a", "t", "c", "h", " ", "S", "o", "u", "r", "c", "e">>
      [] str = "Inv" -> <<"I", "n", "v">>
      [] str = "No" -> <<"N", "o">>
      [] str = "Amt" -> <<"A", "m", "t">>
      [] str = "Name" -> <<"N", "a", "m", "e">>
      [] str = "Amount" -> <<"A", "m", "o", "u", "n", "t">>
      [] str = "Refund Amount" -> <<"R", "e", "f", "u", "n", "d", " ", "A", "m", "o", "u", "n", "t">>
      [] str = "Total" -> <<"T", "o", "t", "a", "l">>
      [] str = "_x" -> <<"_", "x">>
      [] str = "_y" -> <<"_", "y">>

\* date_keywords = ['date', 'dt', 'dated']
date_keywords == <<Chars("date"), Chars("dt"), Chars("dated")>>

\* names the date column may have
DateColumnNames == {Chars("Date"), Chars("DT"), Chars("Due"), Chars("When")}

\* texts a date cell may hold: a date, the same with a midnight time, a
\* bare time, and the texts pandas prints for missing values
DateTexts ==
    {Chars("5/1"), Chars("5/1") \o <<" ">> \o Chars("00:00:00"),
     Chars("00:00:00"), Chars("nan"), Chars("NaT")}

\* a cell: {} when missing, otherwise {text}
DateCells == {{}} \cup {{t} : t \in DateTexts}

\* str.lower() on the letters of the column names
LowerChar(c) ==
    CASE c = "A" -> "a" [] c = "D" -> "d" [] c = "I" -> "i" [] c = "M" -> "m"
      [] c = "N" -> "n" [] c = "R" -> "r" [] c = "S" -> "s" [] c = "T" -> "t"
      [] c = "W" -> "w" [] OTHER -> c

Lower(s) == AsSeq([i \in 1..Len(s) |-> LowerChar(s[i])])

\* kw in s
Contains(s, kw) ==
    \E i \in 1..(Len(s) - Len(kw) + 1) : SubSeq(s, i, i + Len(kw) - 1) = kw

\* any(kw in col.lower() for kw in date_keywords)
IsDateColumn(col) ==
    \E i \in 1..Len(date_keywords) : Contains(Lower(col), date_keywords[i])

\* str.replace(r'\s+00:00:00$', '', regex=True): a trailing 00:00:00 goes
\* together with the whitespace before it, if there is some
StripMidnight(s) ==
    LET n == Len(s)
        time == Chars("00:00:00")
    IN  IF n > Len(time) /\ SubSeq(s, n - Len(time) + 1, n) = time
           /\ s[n - Len(time)] = " "
        THEN RStrip(SubSeq(s, 1, n - Len(time)), " ")
        ELSE s

\* lines 473-475 on one cell: astype(str) (a missing value prints as
\* 'nan'), the midnight suffix is removed, 'nan' and 'NaT' become ''
CleanDateCell(cell) ==
    LET text == IF cell = {} THEN Chars("nan") ELSE ValOf(cell)
        short == StripMidnight(text)
    IN  IF short \in {Chars("nan"), Chars("NaT")} THEN {<<>>} ELSE {short}

\* the designated date column of a loaded statement
DateInit ==
    /\ dt_pc = "loaded"
    /\ dt_name \in DateColumnNames
    /\ dt_orig \in UNION {[1..n -> DateCells] : n \in 1..MaxDateRows}
    /\ dt_cells = dt_orig
    /\ NormIdle
    /\ AgeIdle
    /\ AmtIdle
    /\ RunIdle
    /\ StageIdle
    /\ ColIdle
    /\ ConcIdle

\* lines 379-400: the ages are computed from a converted copy and the
\* column is set back to the values saved at line 379
DateAgeStage ==
    /\ dt_pc = "loaded"
    /\ dt_cells' = dt_orig
    /\ dt_pc' = "aged"
    /\ UNCHANGED <<dt_name, dt_orig, outsideDate>>

\* lines 469-477: every column with a date keyword in its name is tidied
DateCleanup ==
    /\ dt_pc = "aged"
    /\ dt_cells' = IF IsDateColumn(dt_name)
                   THEN AsSeq([i \in 1..Len(dt_cells) |->
                                 CleanDateCell(dt_cells[i])])
                   ELSE dt_cells
    /\ dt_pc' = "cleaned"
    /\ UNCHANGED <<dt_name, dt_orig, outsideDate>>

\* line 587: the table is handed over
DateDelivered ==
    /\ dt_pc = "cleaned"
    /\ dt_pc' = "delivered"
    /\ UNCHANGED <<dt_name, dt_orig, dt_cells, outsideDate>>

DateNext == DateAgeStage \/ DateCleanup \/ DateDelivered

SpecDate == DateInit /\ [][DateNext]_vars

\* C14: in the table delivered by a completed run, every cell of the
\* statement's designated date column holds exactly the original textual
\* value supplied by the caller, whatever the column is named and whatever
\* the values look like, including values ending in " 00:00:00" and
\* missing values.
C14_DateColumnUntouched ==
    dt_pc = "delivered" => dt_cells = dt_orig

(***************************************************************************)
(* SpecCols: the column names of df_result through the slot loop and the   *)
(* detection of the reference amount columns                               *)
(***************************************************************************)
\* amount_keywords = ['amount', 'amt', 'value', 'total', 'sum', 'price',
\* 'cost']
amount_keywords ==
    <<Chars("amount"), Chars("amt"), Chars("value"), Chars("total"),
      Chars("sum"), Chars("price"), Chars("cost")>>

\* str(idx + 1)
SlotDigit == <<"1", "2", "3", "4">>

\* f"Ref{idx+1}"
RefLabel(k) == Chars("Ref") \o <<SlotDigit[k]>>

\* f"Ref{idx+1}_{col}"
Prefixed(k, col) == RefLabel(k) \o <<"_">> \o col

\* f"Separator{idx+1}"
SeparatorName(k) == Chars("Separator") \o <<SlotDigit[k]>>

\* the statements: a match column, the amount column and possibly a
\* further column of the statement's own
StatementColumns ==
    {<<m, Chars("Amount")>> \o extra :
        m \in {Chars("Inv"), Chars("No")},
        extra \in {<<>>, <<Chars("Refund Amount")>>, <<Chars("Name")>>}}

\* the slot configurations: the reference's match column and its return
\* columns
SlotConfigs ==
    [match_col : {Chars("Inv"), Chars("No")},
     return_cols : {<<Chars("Amt")>>, <<Chars("Name")>>,
                    <<Chars("Name"), Chars("Total")>>}]

\* the elements of a list
Elems(seq) == {seq[i] : i \in 1..Len(seq)}

\* ref_extract.columns (lines 440-441)
ExtractColumns(k, config) ==
    <<config.match_col>>
    \o AsSeq([i \in 1..Len(config.return_cols) |->
                Prefixed(k, config.return_cols[i])])

\* the columns of pd.merge(left, right, left_on=soa_col, right_on=match_col,
\* how='left'): a key named alike on both sides appears once; any other
\* name found on both sides gets the suffixes _x (left) and _y (right);
\* left columns come first
MergeColumns(left, soa_col, right, match_col) ==
    LET shared == IF soa_col = match_col THEN {soa_col} ELSE {}
        overlap == (Elems(left) \cap Elems(right)) \ shared
        kept == SelectSeq(right, LAMBDA c : c \notin shared)
    IN  AsSeq([i \in 1..Len(left) |->
                 IF left[i] \in overlap
                 THEN left[i] \o Chars("_x") ELSE left[i]])
        \o AsSeq([i \in 1..Len(kept) |->
                    IF kept[i] \in overlap
                    THEN kept[i] \o Chars("_y") ELSE kept[i]])

\* c.startswith('Ref')
StartsWithRef(c) == Len(c) >= 3 /\ SubSeq(c, 1, 3) = Chars("Ref")

\* any(kw in c.lower() for kw in amount_keywords)
HasAmountKeyword(c) ==
    \E i \in 1..Len(amount_keywords) : Contains(Lower(c), amount_keywords[i])

\* ref_amount_cols (lines 505-507)
DetectRefAmountCols(cols) ==
    SelectSeq(cols, LAMBDA c : HasAmountKeyword(c) /\ StartsWithRef(c))

RECURSIVE SplitFirst(_)
\* ref_col.split('_')[0]
SplitFirst(c) ==
    IF c = <<>> \/ Head(c) = "_" THEN <<>>
    ELSE <<Head(c)>> \o SplitFirst(Tail(c))

\* a loaded statement and, per slot, no reference or a configured one; the
\* statement's amount column is selected
ColInit ==
    /\ col_pc = "loop"
    /\ soa_cols \in StatementColumns
    /\ soa_match = soa_cols[1]
    /\ ref_configs \in [Slots -> {{}} \cup {{c} : c \in SlotConfigs}]
    /\ col_idx = 1
    /\ all_cols = soa_cols
    /\ prev_cols = soa_cols
    /\ compared_cols = <<>>
    /\ NormIdle
    /\ AgeIdle
    /\ AmtIdle
    /\ RunIdle
    /\ StageIdle
    /\ DateIdle
    /\ ConcIdle

\* lines 429-430: `continue` for a config that is None
ColSlotAbsent ==
    /\ col_pc = "loop"
    /\ col_idx <= NSlots
    /\ ref_configs[col_idx] = {}
    /\ col_idx' = col_idx + 1
    /\ UNCHANGED <<col_pc, soa_cols, soa_match, ref_configs, all_cols,
                   prev_cols, compared_cols, outsideCols>>

\* lines 440-443 and 453-454: the extract is merged in and, after the
\* first slot, a separator column is appended
ColSlotJoins ==
    /\ col_pc = "loop"
    /\ col_idx <= NSlots
    /\ ref_configs[col_idx] # {}
    /\ LET config == ValOf(ref_configs[col_idx])
           merged == MergeColumns(all_cols, soa_match,
                                  ExtractColumns(col_idx, config),
                                  config.match_col)
       IN  all_cols' = merged \o (IF col_idx > 1
                                  THEN <<SeparatorName(col_idx)>> ELSE <<>>)
    /\ prev_cols' = all_cols
    /\ col_idx' = col_idx + 1
    /\ UNCHANGED <<col_pc, soa_cols, soa_match, ref_configs, compared_cols,
                   outsideCols>>

\* lines 458-465: 'Match Source' is added and Separator1 dropped
ColMatchSource ==
    /\ col_pc = "loop"
    /\ col_idx > NSlots
    /\ all_cols' = SelectSeq(all_cols \o <<Chars("Match Source")>>,
                             LAMBDA c : c # SeparatorName(1))
    /\ col_pc' = "merged"
    /\ UNCHANGED <<soa_cols, soa_match, ref_configs, col_idx, prev_cols,
                   compared_cols, outsideCols>>

\* lines 499-509: the reference amount columns are detected and, there
\* being a statement amount column, compared
ColDetect ==
    /\ col_pc = "merged"
    /\ compared_cols' = DetectRefAmountCols(all_cols)
    /\ col_pc' = "done"
    /\ UNCHANGED <<soa_cols, soa_match, ref_configs, col_idx, all_cols,
                   prev_cols, outsideCols>>

ColNext == ColSlotAbsent \/ ColSlotJoins \/ ColMatchSource \/ ColDetect

SpecCols == ColInit /\ [][ColNext]_vars

\* C16: a merged column is compared against the statement amount only if
\* it was brought in from a reference slot (its name is Ref{k}_<return
\* column>) and its name contains an amount keyword; no column of the
\* statement itself is treated as a reference amount column, and the label
\* of each 'Amount Difference' entry is a slot label Ref{k}.
C16_OnlyReferenceColumns ==
    \A i \in 1..Len(compared_cols) :
        LET c == compared_cols[i]
        IN  /\ c \notin Elems(soa_cols)
            /\ \E k \in Slots : \E r \in {Chars("Amt"), Chars("Total")} :
                  c = Prefixed(k, r)
            /\ HasAmountKeyword(c)
            /\ \E k \in Slots : SplitFirst(c) = RefLabel(k)

\* the slot iterated last
LastSlot == col_idx - 1

\* C18: a successful join of slot k adds to the merged table exactly the
\* configured return columns, each named Ref{k}_<column> (plus the column
\* Separator{k} when k > 1), and renames or adds no other column: the
\* reference's own match column is not added when its name differs from
\* the statement match column, and no existing column is renamed with a
\* suffix.
C18_OnlyReturnColumnsAdded ==
    (col_pc = "loop" /\ col_idx > 1 /\ ref_configs[LastSlot] # {}) =>
        LET config == ValOf(ref_configs[LastSlot])
        IN  all_cols =
                prev_cols
                \o AsSeq([i \in 1..Len(config.return_cols) |->
                            Prefixed(LastSlot, config.return_cols[i])])
                \o (IF LastSlot > 1
                    THEN <<SeparatorName(LastSlot)>> ELSE <<>>)

(***************************************************************************)
(* SpecConc: Run pressed again while a worker is running; both workers go  *)
(* through their slot loops on the host's reference tables                 *)
(***************************************************************************)
\* most statement rows of the concurrent runs
MaxConcRows == 1

\* the worker of the first Run and the worker of the Run pressed again
Workers == {"first", "second"}

\* the host has a statement and reference tables of one row each loaded,
\* and the first Run has constructed and started its worker
ConcInit ==
    /\ soa_df \in {{t} : t \in StmtTables(MaxConcRows) \ {<<>>}}
    /\ soa_date_col = FALSE
    /\ refs \in [Slots -> {{}} \cup {{t} : t \in RefTables(1)}]
    /\ w_pc = [w \in Workers |-> IF w = "first" THEN "clean" ELSE "none"]
    /\ w_slot = [w \in Workers |-> 1]
    /\ w_locals = [w \in Workers |->
                     IF w = "first"
                     THEN {LoopStart(ValOf(soa_df), refs)} ELSE {}]
    /\ w_begin = [w \in Workers |-> refs]
    /\ w_result = [w \in Workers |-> {}]
    /\ pc = "off" /\ age_raised = FALSE
    /\ statuses = <<>> /\ progress = <<>> /\ debug_log = <<>>
    /\ result = {} /\ prev_result = {}
    /\ NormIdle
    /\ AgeIdle
    /\ AmtIdle
    /\ StageIdle
    /\ DateIdle
    /\ ColIdle

\* Oi360App.run_reco while the first worker is running: a second worker
\* is constructed on the same table objects (lines 923-931) and started
RunAgain ==
    /\ w_pc["second"] = "none"
    /\ w_pc["first"] # "finished"
    /\ w_pc' = [w_pc EXCEPT !["second"] = "clean"]
    /\ w_locals' = [w_locals EXCEPT
                      !["second"] = {LoopStart(ValOf(soa_df), refs)}]
    /\ w_begin' = [w_begin EXCEPT !["second"] = refs]
    /\ UNCHANGED <<hostVars, w_slot, w_result, outsideConc>>

\* lines 429-430 in worker w: `continue` for a config that is None
WorkerSlotAbsent(w) ==
    /\ w_pc[w] = "clean"
    /\ w_slot[w] <= NSlots
    /\ refs[w_slot[w]] = {}
    /\ w_slot' = [w_slot EXCEPT ![w] = @ + 1]
    /\ UNCHANGED <<hostVars, w_pc, w_locals, w_begin, w_result, outsideConc>>

\* line 437 in worker w: the key column of the host's reference table is
\* cleaned in place
WorkerCleansRef(w) ==
    /\ w_pc[w] = "clean"
    /\ w_slot[w] <= NSlots
    /\ refs[w_slot[w]] # {}
    /\ refs' = [refs EXCEPT ![w_slot[w]] = {CleanKeys(ValOf(@))}]
    /\ w_pc' = [w_pc EXCEPT ![w] = "merge"]
    /\ UNCHANGED <<soa_df, soa_date_col, w_slot, w_locals, w_begin, w_result,
                   outsideConc>>

\* lines 438-454 in worker w: its own df_result is cleaned and merged with
\* the extract of the reference table as it is at that moment
WorkerMerges(w) ==
    /\ w_pc[w] = "merge"
    /\ w_locals' = [w_locals EXCEPT
                      ![w] = {JoinCleaned(ValOf(@), w_slot[w],
                                          ValOf(refs[w_slot[w]]))}]
    /\ w_slot' = [w_slot EXCEPT ![w] = @ + 1]
    /\ w_pc' = [w_pc EXCEPT ![w] = "clean"]
    /\ UNCHANGED <<hostVars, w_begin, w_result, outsideConc>>

\* lines 458-587 in worker w: 'Match Source' and reco_complete
WorkerCompletes(w) ==
    /\ w_pc[w] = "clean"
    /\ w_slot[w] > NSlots
    /\ w_result' = [w_result EXCEPT ![w] = {FinalTable(ValOf(w_locals[w]))}]
    /\ w_pc' = [w_pc EXCEPT ![w] = "finished"]
    /\ UNCHANGED <<hostVars, w_slot, w_locals, w_begin, outsideConc>>

ConcNext ==
    \/ RunAgain
    \/ \E w \in Workers :
         \/ WorkerSlotAbsent(w)
         \/ WorkerCleansRef(w)
         \/ WorkerMerges(w)
         \/ WorkerCompletes(w)

SpecConc == ConcInit /\ [][ConcNext]_vars

\* the table worker w would emit running alone on the tables it was
\* constructed on
AloneResult(w) ==
    FinalTable(SlotLoop(LoopStart(ValOf(soa_df), w_begin[w]), 1))

\* C20: two runs started from the same host state (Run pressed again while
\* the first worker is still running) share no mutable state: no table
\* that one run writes is read or written by the other, so every
\* interleaving of the two runs gives each run the result it would
\* produce alone.
C20_RunsIndependent ==
    \A w \in Workers :
        w_pc[w] = "finished" => w_result[w] = {AloneResult(w)}

(***************************************************************************)
(* SpecKeys: a run on tables some of whose match-key cells are missing     *)
(***************************************************************************)
\* most statement rows of a run on tables with missing key cells
MaxKeyRows == 2

\* a match-key cell as read by pd.read_excel(dtype=str): {} when the cell
\* is empty (NaN), otherwise {text}
KeyCells == {{}, {<<"5">>}}

\* statement tables of 1..n rows
KeyStmtTables(n) == UNION {[1..m -> [key : KeyCells]] : m \in 1..n}

\* reference tables: one row, its match-key cell and the cell of the
\* first return column
KeyRefTables == {<<r>> : r \in [key : KeyCells, ret : {{}, {"v"}}]}

\* str(val) of a cell, as astype(str) applies it: NaN prints as 'nan'
astype_str(cell) == IF cell = {} THEN Chars("nan") ELSE ValOf(cell)

\* df[col].astype(str)
StrKeys(t) == AsSeq([i \in 1..Len(t) |-> [t[i] EXCEPT !.key = astype_str(@)]])

\* the host with a statement and reference tables loaded, no worker yet
KeysInit ==
    /\ soa_df \in {{t} : t \in KeyStmtTables(MaxKeyRows)}
    /\ soa_date_col = FALSE
    /\ refs \in [Slots -> {{}} \cup {{t} : t \in KeyRefTables}]
    /\ pc = "idle" /\ age_raised = FALSE
    /\ statuses = <<>> /\ progress = <<>> /\ debug_log = <<>>
    /\ result = {} /\ prev_result = {}
    /\ NormIdle
    /\ AgeIdle
    /\ AmtIdle
    /\ ExtIdle

\* Oi360App.run_reco: the match column of every loaded reference table is
\* converted with astype(str) (line 929) and the worker is started
KeysRunReco ==
    /\ pc = "idle"
    /\ refs' = [k \in Slots |->
                  IF refs[k] = {} THEN {} ELSE {StrKeys(ValOf(refs[k]))}]
    /\ pc' = "started"
    /\ UNCHANGED <<soa_df, soa_date_col, age_raised, channelVars, outsideKeys>>

\* RecoWorker.run without a date column: the statement key column is
\* read through astype(str) (lines 422, 438, 460) and the slots are joined
KeysRun ==
    /\ pc = "started"
    /\ LET acc == SlotLoop(LoopStart(StrKeys(ValOf(soa_df)), refs), 1)
       IN  /\ refs' = acc.refs
           /\ statuses' = acc.statuses
                             \o <<Status("Reconciliation Complete", 0)>>
           /\ progress' = acc.progress \o <<100>>
           /\ result' = {FinalTable(acc)}
    /\ pc' = "finished"
    /\ UNCHANGED <<soa_df, soa_date_col, age_raised, debug_log, prev_result,
                   outsideKeys>>

KeysNext == KeysRunReco \/ KeysRun

SpecKeys == KeysInit /\ [][KeysNext]_vars

\* C22: a statement row whose match-key cell is missing is never
\* attributed to any reference: its 'Match Source' is the empty string and
\* all its Ref{k}_ columns are missing, even when a reference table also
\* contains rows whose match-key cell is missing.
C22_MissingKeyUnmatched ==
    pc = "finished" =>
        \A n \in 1..Len(Emitted.rows) :
            ValOf(soa_df)[Emitted.rows[n].src].key = {} =>
                /\ Emitted.rows[n].match_source = <<>>
                /\ \A k \in Slots : Emitted.rows[n].ret[k] = {}

=============================================================================
